---- MODULE Spec2Model ----
(***************************************************************************)
(* The wallet data store of zcash_client_sqlite (wallet.rs) and the        *)
(* WalletRead / WalletWrite contract of zcash_client_backend (data_api.rs).*)
(*                                                                         *)
(* The store is five tables: blocks, transactions, received_notes,         *)
(* sapling_witnesses and sent_notes.  The queries of wallet.rs are         *)
(* operators over a store value d (a record of the five tables), computed  *)
(* as the SQL and the rusqlite row conversions compute them.               *)
(* rewind_to_height is an operator from a store to a store and a return    *)
(* value; each of its three conn.execute statements may fail.              *)
(***************************************************************************)
EXTENDS Integers, FiniteSets, Sequences, TLC

\* ------------------------------------------------------------ bounds

MaxHeight == 2
MaxTx == 2
MaxNote == 2
MaxWitnessRows == 1
MaxSentRows == 1

\* SQL NULL in a nullable integer column (heights, ids and indexes are >= 0).
NULL == -1

\* Amount::MAX_MONEY, scaled down so that sums of a few notes cross it.
MAX_MONEY == 3

\* data_api::wallet::ANCHOR_OFFSET, scaled down to the modelled heights.
ANCHOR_OFFSET == 2

Heights == 0..MaxHeight
TxIds == 1..MaxTx
NoteIds == 1..MaxNote
\* Accounts 0 and 1 are rows of table accounts; account 2 is not.
AccountIds == {0, 1, 2}

\* What a scanned or decrypted output carries into put_received_note:
\* the owning account and the note value as stored (an i64 column).
Outputs ==
  { [account |-> 0, value |-> 1],
    [account |-> 0, value |-> MAX_MONEY],
    [account |-> 1, value |-> 1],
    [account |-> 1, value |-> -1] }

\* The outputs ingested in the behaviours that also rewind.
ScannedOutputs == { [account |-> 0, value |-> 1] }

\* The outputs of account 1, ingested in the behaviours that spend and rewind.
SpentOutputs == { o \in Outputs : o.account = 1 }

\* consensus::Parameters::activation_height(NetworkUpgrade::Sapling):
\* None, or Some(height).
SaplingActivations == {NULL, 1}

\* ------------------------------------------------------------- state

VARIABLES
  blocks,            \* heights of the rows of table blocks
  transactions,      \* id_tx -> [txid, block, tx_index], for the rows that exist
  received_notes,    \* id_note -> [tx, account, value, nf, spent]
  sapling_witnesses, \* rows [note, block]
  sent_notes,        \* rows [tx]
  sapling,           \* the network parameters' Sapling activation height
  last,              \* the last operation and what it returned
  pre,               \* the store as it was when the last rewind was called
  accounts,          \* account -> [extfvk, address], the rows of table accounts
  address_call       \* the last get_address call and what it returned

vars == <<blocks, transactions, received_notes, sapling_witnesses,
          sent_notes, sapling, last, pre, accounts, address_call>>

DB ==
  [ blocks |-> blocks,
    transactions |-> transactions,
    received_notes |-> received_notes,
    sapling_witnesses |-> sapling_witnesses,
    sent_notes |-> sent_notes ]

EmptyDB ==
  [ blocks |-> {},
    transactions |-> << >>,
    received_notes |-> << >>,
    sapling_witnesses |-> {},
    sent_notes |-> {} ]

NoOp == [op |-> "write", h |-> NULL, txn |-> FALSE, ret |-> "Ok"]

\* ----------------------------------------------------------- helpers

RECURSIVE SumValues(_, _)
SumValues(notes, S) ==
  IF S = {} THEN 0
  ELSE LET n == CHOOSE x \in S : TRUE
       IN notes[n].value + SumValues(notes, S \ {n})

SetMax(S) == CHOOSE x \in S : \A y \in S : y <= x
SetMin(S) == CHOOSE x \in S : \A y \in S : x <= y

\* ------------------------------------------------- rusqlite results

Ok(v) == [tag |-> "Ok", val |-> v, err |-> "none"]
Err(e) == [tag |-> "Err", val |-> NULL, err |-> e]

\* SQL SUM(value) over the selected rows S: NULL when no row is selected.
SqlSum(notes, S) ==
  IF S = {} THEN [null |-> TRUE, v |-> 0]
  ELSE [null |-> FALSE, v |-> SumValues(notes, S)]

\* |row| row.get(0).or(Ok(0)): a NULL column does not convert to i64, and
\* the conversion error is replaced by 0.
RowGetOrZero(col) == IF col.null THEN 0 ELSE col.v

\* Amount::from_i64: Ok for -MAX_MONEY <= amount <= MAX_MONEY, Err otherwise.
Amount_from_i64(amount) ==
  IF -MAX_MONEY <= amount /\ amount <= MAX_MONEY
  THEN Ok(amount)
  ELSE Err("()")

\* u32::saturating_sub
saturating_sub(a, b) == IF a >= b THEN a - b ELSE 0

\* cmp::max
cmp_max(a, b) == IF a >= b THEN a ELSE b

\* ---------------------------------------------- accounts and addresses

\* consensus::Parameters implementations: the networks.
Networks == {"main", "test"}

\* Parameters::hrp_sapling_payment_address
hrp_sapling_payment_address(params) ==
  IF params = "main" THEN "zs" ELSE "ztestsapling"

\* The extended full viewing keys a wallet is set up with.
ExtFVKs == {"k1", "k2"}

MaxAccounts == 2

\* The key lists init_accounts_table is given: one key per account.
ExtFVKLists ==
  UNION { [1..n -> ExtFVKs] : n \in 1..MaxAccounts }

\* ExtendedFullViewingKey::default_address: the payment address of a key.
default_address(extfvk) == [pk_of |-> extfvk]

\* encode_payment_address: Bech32 of the address under the prefix hrp.
encode_payment_address(hrp, addr) == [hrp |-> hrp, data |-> addr]

\* Option<PaymentAddress>; None carries a placeholder that is no key's address.
Some(v) == [some |-> TRUE, v |-> v]
None == [some |-> FALSE, v |-> [pk_of |-> "none"]]

\* Result<Option<PaymentAddress>, SqliteClientError>
OkAddress(v) == [tag |-> "Ok", val |-> v, err |-> "none"]
ErrAddress(e) == [tag |-> "Err", val |-> None, err |-> e]

\* decode_payment_address(hrp, s): the results it can give.  A string
\* encoded under hrp decodes to its address.  For a string encoded under
\* another prefix the result type of get_address admits Ok(None), and the
\* error taxonomy names a typed error for a mismatched prefix; both are
\* outcomes.
decode_payment_address(hrp, s) ==
  IF s.hrp = hrp
  THEN { OkAddress(Some(s.data)) }
  ELSE { OkAddress(None), ErrAddress("IncorrectHRP") }

\* The rows init_accounts_table(params, extfvks) inserts: account i has the
\* i-th key and its default address encoded for the network of params.
AccountRows(params, extfvks) ==
  [ a \in 0..(Len(extfvks) - 1) |->
      [ extfvk |-> extfvks[a + 1],
        address |->
          encode_payment_address(hrp_sapling_payment_address(params),
                                 default_address(extfvks[a + 1])) ] ]

\* Mutant: "SELECT address FROM accounts" without the WHERE clause; query_row
\* takes the first row.
get_address_first_row(accts, params, account) ==
  IF DOMAIN accts = {}
  THEN { ErrAddress("QueryReturnedNoRows") }
  ELSE decode_payment_address(hrp_sapling_payment_address(params),
                              accts[SetMin(DOMAIN accts)].address)

\* wallet::get_address: SELECT address FROM accounts WHERE account = ?;
\* query_row fails with QueryReturnedNoRows when no row matches, and ?
\* returns that error; the stored string is then decoded under the prefix
\* of params.  The value is the set of results the call can give.
get_address(accts, params, account) ==
  IF account \notin DOMAIN accts
  THEN { ErrAddress("QueryReturnedNoRows") }
  ELSE decode_payment_address(hrp_sapling_payment_address(params),
                              accts[account].address)

\* No get_address call has been made since the last write.
NoCall == [called |-> FALSE, params |-> "none", account |-> NULL, ret |-> ErrAddress("none")]

\* ------------------------------------------------------ read queries

\* Mutant: the balance query without "spent IS NULL".
BalanceRows_counting_spent(d, account) ==
  { n \in DOMAIN d.received_notes :
      /\ d.received_notes[n].tx \in DOMAIN d.transactions
      /\ d.received_notes[n].account = account
      /\ d.transactions[d.received_notes[n].tx].block # NULL }

\* Mutant: the balance query without "transactions.block IS NOT NULL".
BalanceRows_counting_unmined(d, account) ==
  { n \in DOMAIN d.received_notes :
      /\ d.received_notes[n].tx \in DOMAIN d.transactions
      /\ d.received_notes[n].account = account
      /\ d.received_notes[n].spent = NULL }

\* The rows "received_notes INNER JOIN transactions ON id_tx = tx WHERE
\* account = ? AND spent IS NULL AND transactions.block IS NOT NULL".
BalanceRows(d, account) ==
  { n \in DOMAIN d.received_notes :
      /\ d.received_notes[n].tx \in DOMAIN d.transactions
      /\ d.received_notes[n].account = account
      /\ d.received_notes[n].spent = NULL
      /\ d.transactions[d.received_notes[n].tx].block # NULL }

\* Mutant: "transactions.block < ?" in place of "<=".
VerifiedRows_below_anchor(d, account, anchor_height) ==
  { n \in DOMAIN d.received_notes :
      /\ d.received_notes[n].tx \in DOMAIN d.transactions
      /\ d.received_notes[n].account = account
      /\ d.received_notes[n].spent = NULL
      /\ d.transactions[d.received_notes[n].tx].block # NULL
      /\ d.transactions[d.received_notes[n].tx].block < anchor_height }

\* The rows "... WHERE account = ? AND spent IS NULL AND
\* transactions.block <= ?": a NULL block compares to NULL, which is not true.
VerifiedRows(d, account, anchor_height) ==
  { n \in DOMAIN d.received_notes :
      /\ d.received_notes[n].tx \in DOMAIN d.transactions
      /\ d.received_notes[n].account = account
      /\ d.received_notes[n].spent = NULL
      /\ d.transactions[d.received_notes[n].tx].block # NULL
      /\ d.transactions[d.received_notes[n].tx].block <= anchor_height }

\* Mutant: the match without the "if !amount.is_negative()" guard.
AmountOrCorrupted_unguarded(balance) ==
  LET r == Amount_from_i64(balance)
  IN IF r.tag = "Ok" THEN Ok(r.val) ELSE Err("CorruptedData")

\* match Amount::from_i64(balance) { Ok(amount) if !amount.is_negative() =>
\* Ok(amount), _ => Err(CorruptedData) }
AmountOrCorrupted(balance) ==
  LET r == Amount_from_i64(balance)
  IN IF r.tag = "Ok" /\ ~(r.val < 0) THEN Ok(r.val) ELSE Err("CorruptedData")

get_balance(d, account) ==
  LET balance == RowGetOrZero(SqlSum(d.received_notes, BalanceRows(d, account)))
  IN AmountOrCorrupted(balance)

get_verified_balance(d, account, anchor_height) ==
  LET balance ==
        RowGetOrZero(SqlSum(d.received_notes,
                            VerifiedRows(d, account, anchor_height)))
  IN AmountOrCorrupted(balance)

\* SELECT MIN(height), MAX(height) FROM blocks: one row, both columns NULL
\* when the table is empty; row.get::<u32> of NULL is an error, and
\* .or(Ok(None)) turns every error into None.
block_height_extrema(d) ==
  IF d.blocks = {}
  THEN [some |-> FALSE, min |-> NULL, max |-> NULL]
  ELSE [some |-> TRUE, min |-> SetMin(d.blocks), max |-> SetMax(d.blocks)]

\* Mutant: the anchor is ANCHOR_OFFSET back from the target, without the
\* cmp::max against the earliest block.
get_target_and_anchor_heights_no_min(d) ==
  LET heights == block_height_extrema(d)
  IN IF ~heights.some
     THEN [some |-> FALSE, target |-> NULL, anchor |-> NULL]
     ELSE [some |-> TRUE, target |-> heights.max + 1,
           anchor |-> saturating_sub(heights.max + 1, ANCHOR_OFFSET)]

get_target_and_anchor_heights(d) ==
  LET heights == block_height_extrema(d)
  IN IF ~heights.some
     THEN [some |-> FALSE, target |-> NULL, anchor |-> NULL]
     ELSE LET target_height == heights.max + 1
              anchor_height ==
                cmp_max(saturating_sub(target_height, ANCHOR_OFFSET),
                        heights.min)
          IN [some |-> TRUE, target |-> target_height,
              anchor |-> anchor_height]

\* SELECT block FROM transactions WHERE txid = ?, then
\* |row| row.get(0).map(u32::into), then .optional(): no row is Ok(None);
\* a row whose block is NULL does not convert to u32, and .optional()
\* passes every error other than QueryReturnedNoRows through.
get_tx_height(d, txid) ==
  LET rows == { t \in DOMAIN d.transactions : d.transactions[t].txid = txid }
  IN IF rows = {} THEN Ok(NULL)
     ELSE LET row == d.transactions[CHOOSE t \in rows : TRUE]
          IN IF row.block = NULL THEN Err("InvalidColumnType")
             ELSE Ok(row.block)

\* SELECT note, witness FROM sapling_witnesses WHERE block = ?
get_witnesses(d, block_height) ==
  { w \in d.sapling_witnesses : w.block = block_height }

\* Result<Vec<(Nullifier, AccountId)>, SqliteClientError>
OkNullifiers(v) == [tag |-> "Ok", val |-> v, err |-> "none"]
ErrNullifiers(e) == [tag |-> "Err", val |-> {}, err |-> e]

\* Mutant: "SELECT id_note, nf, account FROM received_notes" without
\* "WHERE spent IS NULL".
get_nullifiers_of_all_notes(d) ==
  LET rows == DOMAIN d.received_notes
  IN IF \E n \in rows : d.received_notes[n].nf = NULL
     THEN ErrNullifiers("InvalidColumnType")
     ELSE OkNullifiers({ [nf |-> d.received_notes[n].nf,
                          account |-> d.received_notes[n].account] :
                         n \in rows })

\* SELECT id_note, nf, account FROM received_notes WHERE spent IS NULL; each
\* row gives (nf, account), and row.get(1)? of a NULL nf is an error that
\* res.push(nullifier?) returns.
get_nullifiers(d) ==
  LET rows == { n \in DOMAIN d.received_notes : d.received_notes[n].spent = NULL }
  IN IF \E n \in rows : d.received_notes[n].nf = NULL
     THEN ErrNullifiers("InvalidColumnType")
     ELSE OkNullifiers({ [nf |-> d.received_notes[n].nf,
                          account |-> d.received_notes[n].account] :
                         n \in rows })

\* ------------------------------------------------- rewind_to_height

\* DELETE FROM sapling_witnesses WHERE block > ?
DeleteWitnessesAbove(d, h) ==
  [d EXCEPT !.sapling_witnesses = { w \in @ : ~(w.block > h) }]

\* Mutant: DELETE FROM transactions WHERE block > ?
DeleteTransactionsAbove(d, h) ==
  [d EXCEPT !.transactions =
     [t \in { x \in DOMAIN @ : ~(@[x].block # NULL /\ @[x].block > h) } |->
        @[t]]]

\* Mutant: UPDATE transactions ... WHERE block > ? + 1: the transactions
\* mined in the first block above h keep their height.
UnmineTransactionsAboveNext(d, h) ==
  [d EXCEPT !.transactions =
     [t \in DOMAIN @ |->
        IF @[t].block # NULL /\ @[t].block > h + 1
        THEN [@[t] EXCEPT !.block = NULL, !.tx_index = NULL]
        ELSE @[t]]]

\* Mutant: the un-mining also clears the spent-state of the notes that the
\* un-mined transactions spent.
UnmineTransactionsAbove_unspending(d, h) ==
  [d EXCEPT
     !.transactions =
       [t \in DOMAIN @ |->
          IF @[t].block # NULL /\ @[t].block > h
          THEN [@[t] EXCEPT !.block = NULL, !.tx_index = NULL]
          ELSE @[t]],
     !.received_notes =
       [n \in DOMAIN @ |->
          IF /\ @[n].spent # NULL
             /\ d.transactions[@[n].spent].block # NULL
             /\ d.transactions[@[n].spent].block > h
          THEN [@[n] EXCEPT !.spent = NULL]
          ELSE @[n]]]

\* UPDATE transactions SET block = NULL, tx_index = NULL WHERE block > ?
\* (a NULL block is not > h).
UnmineTransactionsAbove(d, h) ==
  [d EXCEPT !.transactions =
     [t \in DOMAIN @ |->
        IF @[t].block # NULL /\ @[t].block > h
        THEN [@[t] EXCEPT !.block = NULL, !.tx_index = NULL]
        ELSE @[t]]]

\* Mutant: DELETE FROM blocks WHERE height >= ?
DeleteBlocksFrom(d, h) ==
  [d EXCEPT !.blocks = { b \in @ : ~(b >= h) }]

\* DELETE FROM blocks WHERE height > ?
DeleteBlocksAbove(d, h) ==
  [d EXCEPT !.blocks = { b \in @ : ~(b > h) }]

\* SELECT MAX(height) FROM blocks, then
\* row.get(0).map(u32::into).or(Ok(sapling_activation_height - 1))
LastScannedHeight(d, sapling_activation_height) ==
  IF d.blocks = {} THEN sapling_activation_height - 1 ELSE SetMax(d.blocks)

\* Mutant: "if block_height > last_scanned_height" guards the early return.
rewind_to_height_gt(d, sapling_activation, block_height, fail) ==
  IF sapling_activation = NULL
  THEN [db |-> d, ret |-> "SaplingNotActive"]
  ELSE IF block_height > LastScannedHeight(d, sapling_activation)
  THEN [db |-> d, ret |-> "Ok"]
  ELSE IF fail = "witnesses"
  THEN [db |-> d, ret |-> "SqliteError"]
  ELSE LET d1 == DeleteWitnessesAbove(d, block_height)
       IN IF fail = "transactions"
          THEN [db |-> d1, ret |-> "SqliteError"]
          ELSE LET d2 == UnmineTransactionsAbove(d1, block_height)
               IN IF fail = "blocks"
                  THEN [db |-> d2, ret |-> "SqliteError"]
                  ELSE [db |-> DeleteBlocksAbove(d2, block_height),
                        ret |-> "Ok"]

\* Mutant: the result of the UPDATE is dropped instead of returned with ?,
\* so a failed UPDATE is followed by the DELETE of the blocks.
rewind_to_height_unchecked_update(d, sapling_activation, block_height, fail) ==
  IF sapling_activation = NULL
  THEN [db |-> d, ret |-> "SaplingNotActive"]
  ELSE IF block_height >= LastScannedHeight(d, sapling_activation)
  THEN [db |-> d, ret |-> "Ok"]
  ELSE IF fail = "witnesses"
  THEN [db |-> d, ret |-> "SqliteError"]
  ELSE LET d1 == DeleteWitnessesAbove(d, block_height)
           d2 == IF fail = "transactions" THEN d1
                 ELSE UnmineTransactionsAbove(d1, block_height)
       IN IF fail = "blocks"
          THEN [db |-> d2, ret |-> "SqliteError"]
          ELSE [db |-> DeleteBlocksAbove(d2, block_height), ret |-> "Ok"]

\* Mutant: a missing Sapling activation height is replaced by height 0
\* (unwrap_or) in place of the SaplingNotActive error (ok_or ... ?).
rewind_to_height_activation_defaulted(d, sapling_activation, block_height, fail) ==
  LET sapling_activation_height ==
        IF sapling_activation = NULL THEN 0 ELSE sapling_activation
  IN IF block_height >= LastScannedHeight(d, sapling_activation_height)
     THEN [db |-> d, ret |-> "Ok"]
     ELSE IF fail = "witnesses"
     THEN [db |-> d, ret |-> "SqliteError"]
     ELSE LET d1 == DeleteWitnessesAbove(d, block_height)
          IN IF fail = "transactions"
             THEN [db |-> d1, ret |-> "SqliteError"]
             ELSE LET d2 == UnmineTransactionsAbove(d1, block_height)
                  IN IF fail = "blocks"
                     THEN [db |-> d2, ret |-> "SqliteError"]
                     ELSE [db |-> DeleteBlocksAbove(d2, block_height),
                           ret |-> "Ok"]

\* wallet::rewind_to_height on store d.  fail names the conn.execute that
\* returns an error ("none": all succeed); the ? operator returns at once,
\* leaving what the earlier statements did.
rewind_to_height(d, sapling_activation, block_height, fail) ==
  IF sapling_activation = NULL
  THEN [db |-> d, ret |-> "SaplingNotActive"]
  ELSE IF block_height >= LastScannedHeight(d, sapling_activation)
  THEN [db |-> d, ret |-> "Ok"]
  ELSE IF fail = "witnesses"
  THEN [db |-> d, ret |-> "SqliteError"]
  ELSE LET d1 == DeleteWitnessesAbove(d, block_height)
       IN IF fail = "transactions"
          THEN [db |-> d1, ret |-> "SqliteError"]
          ELSE LET d2 == UnmineTransactionsAbove(d1, block_height)
               IN IF fail = "blocks"
                  THEN [db |-> d2, ret |-> "SqliteError"]
                  ELSE [db |-> DeleteBlocksAbove(d2, block_height),
                        ret |-> "Ok"]

\* WalletWrite::transactionally: the closure's mutations are committed if it
\* returns Ok and rolled back if it returns an error.  r is what the closure
\* returned and the store as it left it, d the store when the scope began.
transactionally(d, r) ==
  IF r.ret = "Ok" THEN r ELSE [r EXCEPT !.db = d]

FailPoints == {"none", "witnesses", "transactions", "blocks"}

\* ------------------------------------------------------------ actions

Init ==
  /\ blocks = {}
  /\ transactions = << >>
  /\ received_notes = << >>
  /\ sapling_witnesses = {}
  /\ sent_notes = {}
  /\ sapling \in SaplingActivations
  /\ last = NoOp
  /\ pre = EmptyDB
  /\ accounts = AccountRows("main", <<"k1", "k2">>)
  /\ address_call = NoCall

Wrote ==
  /\ last' = NoOp
  /\ pre' = EmptyDB
  /\ UNCHANGED <<sapling, accounts, address_call>>

\* WalletWrite::insert_block: height is the primary key of blocks.
insert_block(block_height) ==
  /\ block_height \notin blocks
  /\ blocks' = blocks \cup {block_height}
  /\ UNCHANGED <<transactions, received_notes, sapling_witnesses, sent_notes>>
  /\ Wrote

\* WalletWrite::put_tx_meta: the transaction is recorded as mined at height;
\* transactions.block references blocks(height).
put_tx_meta(tx, height) ==
  /\ height \in blocks
  /\ IF tx \in DOMAIN transactions
     THEN transactions[tx].block # height
     ELSE TRUE
  /\ transactions' =
       [t \in DOMAIN transactions \cup {tx} |->
          IF t = tx
          THEN [txid |-> tx, block |-> height, tx_index |-> 0]
          ELSE transactions[t]]
  /\ UNCHANGED <<blocks, received_notes, sapling_witnesses, sent_notes>>
  /\ Wrote

\* WalletWrite::put_tx_data: a transaction the wallet holds in full; the new
\* row is not mined.
put_tx_data(tx) ==
  /\ tx \notin DOMAIN transactions
  /\ transactions' =
       [t \in DOMAIN transactions \cup {tx} |->
          IF t = tx THEN [txid |-> tx, block |-> NULL, tx_index |-> NULL]
          ELSE transactions[t]]
  /\ UNCHANGED <<blocks, received_notes, sapling_witnesses, sent_notes>>
  /\ Wrote

\* WalletWrite::put_received_note: a new row, unspent, with the next id_note;
\* received_notes.tx references transactions(id_tx).  nf tells whether a
\* nullifier is given (Some) or not (None); the nullifier of a note is
\* written as its id_note, and column nf is NULL without one.
put_received_note(output, nf, tx_ref) ==
  LET id_note == Cardinality(DOMAIN received_notes) + 1
  IN /\ id_note \in NoteIds
     /\ tx_ref \in DOMAIN transactions
     /\ received_notes' =
          [n \in DOMAIN received_notes \cup {id_note} |->
             IF n = id_note
             THEN [tx |-> tx_ref, account |-> output.account,
                   value |-> output.value,
                   nf |-> (IF nf THEN id_note ELSE NULL), spent |-> NULL]
             ELSE received_notes[n]]
     /\ UNCHANGED <<blocks, transactions, sapling_witnesses, sent_notes>>
     /\ Wrote

\* WalletWrite::mark_spent: the unspent note with the nullifier gets
\* spent = tx_ref.
mark_spent(tx_ref, note) ==
  /\ note \in DOMAIN received_notes
  /\ received_notes[note].nf # NULL
  /\ tx_ref \in DOMAIN transactions
  /\ received_notes[note].spent = NULL
  /\ received_notes[note].tx # tx_ref
  /\ received_notes' = [received_notes EXCEPT ![note].spent = tx_ref]
  /\ UNCHANGED <<blocks, transactions, sapling_witnesses, sent_notes>>
  /\ Wrote

\* WalletWrite::insert_witness: a witness snapshot of the note at height.
insert_witness(note_id, height) ==
  /\ note_id \in DOMAIN received_notes
  /\ height \in blocks
  /\ [note |-> note_id, block |-> height] \notin sapling_witnesses
  /\ Cardinality(sapling_witnesses) < MaxWitnessRows
  /\ sapling_witnesses' =
       sapling_witnesses \cup {[note |-> note_id, block |-> height]}
  /\ UNCHANGED <<blocks, transactions, received_notes, sent_notes>>
  /\ Wrote

\* WalletWrite::insert_sent_note: an output the wallet authored in tx_ref.
insert_sent_note(tx_ref) ==
  /\ tx_ref \in DOMAIN transactions
  /\ [tx |-> tx_ref] \notin sent_notes
  /\ Cardinality(sent_notes) < MaxSentRows
  /\ sent_notes' = sent_notes \cup {[tx |-> tx_ref]}
  /\ UNCHANGED <<blocks, transactions, received_notes, sapling_witnesses>>
  /\ Wrote

\* The store becomes d.
StoreBecomes(d) ==
  /\ blocks' = d.blocks
  /\ transactions' = d.transactions
  /\ received_notes' = d.received_notes
  /\ sapling_witnesses' = d.sapling_witnesses
  /\ sent_notes' = d.sent_notes

\* wallet::rewind_to_height called on the connection as it is.
RewindToHeight(block_height, fail) ==
  LET r == rewind_to_height(DB, sapling, block_height, fail)
  IN /\ StoreBecomes(r.db)
     /\ last' = [op |-> "rewind_to_height", h |-> block_height,
                 txn |-> FALSE, ret |-> r.ret]
     /\ pre' = DB
     /\ UNCHANGED <<sapling, accounts, address_call>>

\* transactionally(|up| up.rewind_to_height(params, block_height))
TransactionallyRewind(block_height, fail) ==
  LET r == transactionally(DB,
                           rewind_to_height(DB, sapling, block_height, fail))
  IN /\ StoreBecomes(r.db)
     /\ last' = [op |-> "rewind_to_height", h |-> block_height,
                 txn |-> TRUE, ret |-> r.ret]
     /\ pre' = DB
     /\ UNCHANGED <<sapling, accounts, address_call>>

Next ==
  \/ \E h \in Heights : insert_block(h)
  \/ \E t \in TxIds, h \in Heights : put_tx_meta(t, h)
  \/ \E t \in TxIds : put_tx_data(t)
  \/ \E o \in ScannedOutputs, t \in TxIds : put_received_note(o, TRUE, t)
  \/ \E t \in TxIds, n \in NoteIds : mark_spent(t, n)
  \/ \E n \in NoteIds, h \in Heights : insert_witness(n, h)
  \/ \E t \in TxIds : insert_sent_note(t)
  \/ \E h \in Heights, f \in FailPoints : RewindToHeight(h, f)
  \/ \E h \in Heights, f \in FailPoints : TransactionallyRewind(h, f)

Spec == Init /\ [][Next]_vars

\* The behaviours that only ingest, with every kind of output.
NextBalance ==
  \/ \E h \in Heights : insert_block(h)
  \/ \E t \in TxIds, h \in Heights : put_tx_meta(t, h)
  \/ \E t \in TxIds : put_tx_data(t)
  \/ \E o \in Outputs, t \in TxIds : put_received_note(o, TRUE, t)
  \/ \E t \in TxIds, n \in NoteIds : mark_spent(t, n)

SpecBalance == Init /\ [][NextBalance]_vars

\* The behaviours that ingest notes of any value, with or without a
\* nullifier, spend them and rewind.
NextSpent ==
  \/ \E h \in Heights : insert_block(h)
  \/ \E t \in TxIds, h \in Heights : put_tx_meta(t, h)
  \/ \E o \in SpentOutputs, nf \in BOOLEAN, t \in TxIds :
       put_received_note(o, nf, t)
  \/ \E t \in TxIds, n \in NoteIds : mark_spent(t, n)
  \/ \E h \in Heights, f \in FailPoints : RewindToHeight(h, f)
  \/ \E h \in Heights, f \in FailPoints : TransactionallyRewind(h, f)

SpecSpent == Init /\ [][NextSpent]_vars

\* init_accounts_table(params, extfvks): fills the empty table accounts.
init_accounts_table(params, extfvks) ==
  /\ DOMAIN accounts = {}
  /\ accounts' = AccountRows(params, extfvks)
  /\ address_call' = NoCall
  /\ UNCHANGED <<blocks, transactions, received_notes, sapling_witnesses,
                 sent_notes, sapling, last, pre>>

\* A call of wallet::get_address(data, params, account).
GetAddress(params, account) ==
  /\ \E r \in get_address(accounts, params, account) :
       address_call' = [called |-> TRUE, params |-> params,
                        account |-> account, ret |-> r]
  /\ UNCHANGED <<blocks, transactions, received_notes, sapling_witnesses,
                 sent_notes, sapling, last, pre, accounts>>

\* The wallet before init_accounts_table.
InitAddress ==
  /\ blocks = {}
  /\ transactions = << >>
  /\ received_notes = << >>
  /\ sapling_witnesses = {}
  /\ sent_notes = {}
  /\ sapling \in SaplingActivations
  /\ last = NoOp
  /\ pre = EmptyDB
  /\ accounts = << >>
  /\ address_call = NoCall

NextAddress ==
  \/ \E p \in Networks, ks \in ExtFVKLists : init_accounts_table(p, ks)
  \/ \E p \in Networks, a \in AccountIds : GetAddress(p, a)

\* The behaviours that set up the accounts and look up addresses.
SpecAddress == InitAddress /\ [][NextAddress]_vars

\* ------------------------------------------------------------- claims

Rewound == last.op = "rewind_to_height"

IsRange(S) == S # {} /\ \A x \in SetMin(S)..SetMax(S) : x \in S

MinedAbove(d, h) ==
  { t \in DOMAIN d.transactions :
      d.transactions[t].block # NULL /\ d.transactions[t].block > h }

NothingAbove(h) ==
  /\ \A b \in blocks : b <= h
  /\ \A w \in sapling_witnesses : w.block <= h
  /\ MinedAbove(DB, h) = {}

\* C1: after a successful rewind_to_height(h) with h below the maximum
\* stored block height, no block, no witness snapshot and no transaction's
\* mined height is above h; and when the stored blocks were the contiguous
\* range [min, max] with min <= h < max, block_height_extrema is (min, h).
C1_RewindRemovesAbove ==
  (Rewound /\ last.ret = "Ok" /\ pre.blocks # {}
     /\ last.h < SetMax(pre.blocks)) =>
    /\ NothingAbove(last.h)
    /\ (IsRange(pre.blocks) /\ SetMin(pre.blocks) <= last.h) =>
         block_height_extrema(DB) =
           [some |-> TRUE, min |-> SetMin(pre.blocks), max |-> last.h]

C1_Witness ==
  /\ Rewound /\ last.ret = "Ok"
  /\ IsRange(pre.blocks)
  /\ SetMin(pre.blocks) <= last.h /\ last.h < SetMax(pre.blocks)
  /\ \E w \in pre.sapling_witnesses : w.block > last.h
  /\ MinedAbove(pre, last.h) # {}
  /\ blocks = SetMin(pre.blocks)..last.h

\* The case of C2: h is at or above the maximum stored block height, or no
\* block is stored and h is at or above the Sapling activation height - 1.
NoOpCase ==
  /\ Rewound
  /\ IF pre.blocks # {} THEN last.h >= SetMax(pre.blocks)
     ELSE sapling # NULL /\ last.h >= sapling - 1

\* C2 as claimed: rewind_to_height(h) with h >= last_scanned_height returns
\* success and changes no stored state.
C2_Original == NoOpCase => (last.ret = "Ok" /\ DB = pre)

\* C2 as amended: rewind_to_height(h) with h >= last_scanned_height changes
\* no stored state; it returns success when the network parameters have a
\* Sapling activation height and the SaplingNotActive error when they have
\* none.
C2_RewindNoOp ==
  NoOpCase =>
    /\ DB = pre
    /\ last.ret = (IF sapling = NULL THEN "SaplingNotActive" ELSE "Ok")

C2_Witness ==
  /\ NoOpCase /\ last.ret = "Ok"
  /\ blocks # {} /\ last.h = SetMax(blocks)
  /\ \E w \in sapling_witnesses : w.block = last.h
  /\ \E t \in DOMAIN transactions : transactions[t].block = last.h

\* C3 as claimed: if a step of rewind_to_height fails, the stored state
\* after the call is the state before the call.
C3_Original == (Rewound /\ last.ret = "SqliteError") => DB = pre

\* C3 as amended: rewind_to_height run inside a transactionally scope is
\* all-or-nothing: when a step fails the stored state is the state before
\* the call, and in every case the store is either as before the call or
\* holds nothing above h.
C3_TransactionalRewind ==
  (Rewound /\ last.txn) =>
    /\ last.ret = "SqliteError" => DB = pre
    /\ DB = pre \/ NothingAbove(last.h)

C3_Witness ==
  /\ Rewound /\ last.txn /\ last.ret = "SqliteError"
  /\ \E w \in sapling_witnesses : w.block > last.h
  /\ MinedAbove(DB, last.h) # {}
  /\ DB = pre

\* C4: rewind_to_height deletes no transaction, received note or sent note,
\* and changes no field of them other than a transaction's block and
\* tx_index.
C4_RewindKeepsRecords ==
  Rewound =>
    /\ DOMAIN transactions = DOMAIN pre.transactions
    /\ \A t \in DOMAIN pre.transactions :
         transactions[t].txid = pre.transactions[t].txid
    /\ received_notes = pre.received_notes
    /\ sent_notes = pre.sent_notes

C4_Witness ==
  /\ Rewound /\ last.ret = "Ok"
  /\ \E t \in MinedAbove(pre, last.h) :
       /\ transactions[t].block = NULL
       /\ \E n \in DOMAIN received_notes : received_notes[n].tx = t
       /\ [tx |-> t] \in sent_notes

\* C5 as claimed: a transaction that was mined above h is still stored after
\* a successful rewind_to_height(h) with h below the maximum stored height,
\* and get_tx_height for its txid returns Ok(None).
C5_UnminedHeightAbsent ==
  (Rewound /\ last.ret = "Ok" /\ pre.blocks # {}
     /\ last.h < SetMax(pre.blocks)) =>
    \A t \in MinedAbove(pre, last.h) :
      /\ t \in DOMAIN transactions
      /\ get_tx_height(DB, pre.transactions[t].txid) = Ok(NULL)

\* C6: for stored extrema (min, max), get_target_and_anchor_heights returns
\* target = max + 1 and anchor = max(target - ANCHOR_OFFSET, min), with
\* min <= anchor <= target - 1 and no underflow below 0.
C6_AnchorInvariant ==
  blocks # {} =>
    LET min == SetMin(blocks)
        max == SetMax(blocks)
        r == get_target_and_anchor_heights(DB)
        diff == r.target - ANCHOR_OFFSET
    IN /\ r.some
       /\ r.target = max + 1
       /\ r.anchor = (IF diff >= min THEN diff ELSE min)
       /\ min <= r.anchor /\ r.anchor <= r.target - 1
       /\ r.anchor >= 0

C6_Witness ==
  /\ blocks # {}
  /\ SetMax(blocks) + 1 < ANCHOR_OFFSET
  /\ get_target_and_anchor_heights(DB).anchor = SetMin(blocks)

\* C7: with no block stored, get_balance and get_verified_balance (at any
\* anchor height) are zero for every account, and block_height_extrema and
\* get_target_and_anchor_heights are absent.
C7_EmptyStore ==
  blocks = {} =>
    /\ \A a \in AccountIds :
         /\ get_balance(DB, a) = Ok(0)
         /\ \A h \in Heights : get_verified_balance(DB, a, h) = Ok(0)
    /\ ~block_height_extrema(DB).some
    /\ ~get_target_and_anchor_heights(DB).some

C7_Witness ==
  /\ blocks = {}
  /\ Rewound /\ pre.blocks # {}
  /\ \E n \in DOMAIN received_notes :
       /\ received_notes[n].spent = NULL
       /\ received_notes[n].tx \in MinedAbove(pre, last.h)

\* The notes the balance of account a counts: those of a, with no spending
\* transaction, whose transaction has a mined height.
CountedNotes(a) ==
  { n \in DOMAIN received_notes :
      /\ received_notes[n].account = a
      /\ received_notes[n].spent = NULL
      /\ transactions[received_notes[n].tx].block # NULL }

CountedAt(a, h) ==
  { n \in CountedNotes(a) : transactions[received_notes[n].tx].block <= h }

NoteSum(S) == SumValues(received_notes, S)

InRange(s) == 0 <= s /\ s <= MAX_MONEY

\* C8: for every account whose sum is in the valid range, get_balance is the
\* sum of the values of its unspent notes of mined transactions.
C8_BalanceIsSum ==
  \A a \in AccountIds :
    InRange(NoteSum(CountedNotes(a))) =>
      get_balance(DB, a) = Ok(NoteSum(CountedNotes(a)))

C8_Witness ==
  \E n, m \in DOMAIN received_notes :
    /\ n \in CountedNotes(0)
    /\ received_notes[m].account = 0 /\ received_notes[m].spent # NULL
    /\ transactions[received_notes[m].tx].block # NULL
    /\ get_balance(DB, 0) = Ok(received_notes[n].value)

\* C9 as claimed: get_verified_balance(a, h) is the sum of the unspent notes
\* of a mined at or below h, and never exceeds get_balance(a).
C9_Original ==
  \A a \in AccountIds : \A h \in Heights :
    LET v == get_verified_balance(DB, a, h)
        b == get_balance(DB, a)
    IN /\ InRange(NoteSum(CountedAt(a, h))) => v = Ok(NoteSum(CountedAt(a, h)))
       /\ (v.tag = "Ok" /\ b.tag = "Ok") => v.val <= b.val

\* C9 as amended: get_verified_balance(a, h) is the sum of the unspent notes
\* of a mined at or below h; when no counted note of a has a negative value
\* and get_balance(a) succeeds, get_verified_balance(a, h) succeeds and does
\* not exceed it.
C9_VerifiedBalance ==
  \A a \in AccountIds : \A h \in Heights :
    LET v == get_verified_balance(DB, a, h)
        b == get_balance(DB, a)
    IN /\ InRange(NoteSum(CountedAt(a, h))) => v = Ok(NoteSum(CountedAt(a, h)))
       /\ ((\A n \in CountedNotes(a) : received_notes[n].value >= 0)
             /\ b.tag = "Ok") =>
            (v.tag = "Ok" /\ v.val <= b.val)

C9_Witness ==
  \E a \in AccountIds : \E h \in Heights :
    /\ \A n \in CountedNotes(a) : received_notes[n].value >= 0
    /\ CountedAt(a, h) # {}
    /\ CountedAt(a, h) # CountedNotes(a)
    /\ get_balance(DB, a).tag = "Ok"
    /\ get_verified_balance(DB, a, h).val < get_balance(DB, a).val

\* C10: when the sum of the selected note values is negative or above
\* MAX_MONEY, get_balance and get_verified_balance return the CorruptedData
\* error, not an amount.
C10_CorruptedSum ==
  \A a \in AccountIds :
    /\ ~InRange(NoteSum(CountedNotes(a))) =>
         get_balance(DB, a) = Err("CorruptedData")
    /\ \A h \in Heights :
         ~InRange(NoteSum(CountedAt(a, h))) =>
           get_verified_balance(DB, a, h) = Err("CorruptedData")

C10_Witness ==
  \E a \in AccountIds : \E h \in Heights :
    /\ NoteSum(CountedNotes(a)) < 0
    /\ NoteSum(CountedAt(a, h)) < 0
    /\ get_balance(DB, a).tag = "Err"
    /\ get_verified_balance(DB, a, h).tag = "Err"

\* The other case of C10: a sum above MAX_MONEY.
C10_AboveMax ==
  \E a \in AccountIds : \E h \in Heights :
    /\ NoteSum(CountedNotes(a)) > MAX_MONEY
    /\ NoteSum(CountedAt(a, h)) > MAX_MONEY
    /\ get_balance(DB, a).tag = "Err"
    /\ get_verified_balance(DB, a, h).tag = "Err"

\* C11 as claimed: rewind_to_height(h) with h below the Sapling activation
\* height returns an error and leaves the stored state unchanged.
C11_Original ==
  (Rewound /\ sapling # NULL /\ last.h < sapling) =>
    (last.ret # "Ok" /\ DB = pre)

\* C11 as amended: rewind_to_height with network parameters that have no
\* Sapling activation height returns the SaplingNotActive error and leaves
\* the stored state unchanged, for every h; that error is returned in no
\* other case, and a rewind to h below a Sapling activation height that the
\* parameters do have returns success unless a statement fails.
C11_SaplingNotActive ==
  Rewound =>
    /\ sapling = NULL => (last.ret = "SaplingNotActive" /\ DB = pre)
    /\ last.ret = "SaplingNotActive" => sapling = NULL
    /\ (sapling # NULL /\ last.h < sapling) =>
         last.ret \in {"Ok", "SqliteError"}

C11_Witness ==
  /\ Rewound /\ sapling = NULL /\ last.ret = "SaplingNotActive"
  /\ blocks # {} /\ last.h < SetMax(blocks)
  /\ \E w \in sapling_witnesses : w.block > last.h
  /\ MinedAbove(DB, last.h) # {}
  /\ DB = pre

\* The case C11 names, as the code treats it: a rewind below the Sapling
\* activation height that succeeds and removes what is above h.
C11_RewindBelowActivation ==
  /\ Rewound /\ sapling # NULL /\ last.h < sapling
  /\ last.ret = "Ok"
  /\ MinedAbove(pre, last.h) # {}
  /\ DB # pre

\* The address string stored for the account of the last get_address call.
StoredAddress == accounts[address_call.account].address

CalledForKnown ==
  address_call.called /\ address_call.account \in DOMAIN accounts

C12_UnknownAccount ==
  /\ address_call.called
  /\ DOMAIN accounts # {}
  /\ address_call.account \notin DOMAIN accounts
  /\ address_call.ret.tag = "Err"

C12_OtherNetwork ==
  /\ CalledForKnown
  /\ StoredAddress.hrp # hrp_sapling_payment_address(address_call.params)
  /\ address_call.ret = OkAddress(None)

\* Every transaction of store d that has a block height references a block
\* stored in d.
MinedReferenceBlocks(d) ==
  \A t \in DOMAIN d.transactions :
    d.transactions[t].block # NULL => d.transactions[t].block \in d.blocks

\* C13: if before rewind_to_height(h) every transaction with a block height
\* references a stored block, then after the call, for every h and whether
\* it succeeded or failed, every transaction that still has a block height
\* references a block that is still stored.
C13_RewindKeepsReferences ==
  (Rewound /\ MinedReferenceBlocks(pre)) => MinedReferenceBlocks(DB)

C13_Witness ==
  /\ Rewound /\ last.ret = "Ok"
  /\ MinedReferenceBlocks(pre)
  /\ MinedAbove(pre, last.h) # {}
  /\ \A t \in MinedAbove(pre, last.h) : transactions[t].block = NULL
  /\ \E t \in DOMAIN transactions :
       /\ transactions[t].block # NULL
       /\ transactions[t].block \in blocks
  /\ blocks # pre.blocks

\* The cases C13 names: h below the minimum stored height, and no block
\* stored.
C13_BelowMinimum ==
  /\ Rewound /\ last.ret = "Ok"
  /\ pre.blocks # {} /\ last.h < SetMin(pre.blocks)
  /\ MinedAbove(pre, last.h) # {}
  /\ blocks = {}
  /\ \A t \in DOMAIN transactions : transactions[t].block = NULL

C13_EmptyStore ==
  /\ Rewound /\ pre.blocks = {}
  /\ DOMAIN transactions # {}

\* A rewind outside a transaction that failed at the DELETE of the blocks.
C13_PartialRewind ==
  /\ Rewound /\ ~last.txn /\ last.ret = "SqliteError"
  /\ MinedAbove(pre, last.h) # {}
  /\ MinedAbove(DB, last.h) = {}
  /\ blocks = pre.blocks

\* The notes that were marked spent when the last rewind was called.
SpentBefore ==
  { n \in DOMAIN pre.received_notes : pre.received_notes[n].spent # NULL }

\* rewind_to_height left every note's spent-state as it was.
SpentStateKept ==
  /\ DOMAIN received_notes = DOMAIN pre.received_notes
  /\ \A n \in DOMAIN pre.received_notes :
       received_notes[n].spent = pre.received_notes[n].spent

\* The notes spent before the rewind are in no balance and no nullifier list
\* after it.
SpentStayExcluded ==
  \A n \in SpentBefore :
    /\ \A a \in AccountIds :
         /\ n \notin BalanceRows(DB, a)
         /\ \A h \in Heights : n \notin VerifiedRows(DB, a, h)
    /\ \A e \in get_nullifiers(DB).val : e.nf # pre.received_notes[n].nf

\* C14 as claimed: rewind_to_height leaves every note's spent-state
\* unchanged, a note spent before it stays excluded from get_balance,
\* get_verified_balance and get_nullifiers, and for every account
\* get_balance after the rewind is not greater than before it.
C14_Original ==
  Rewound =>
    /\ SpentStateKept
    /\ SpentStayExcluded
    /\ \A a \in AccountIds :
         (get_balance(pre, a).tag = "Ok" /\ get_balance(DB, a).tag = "Ok") =>
           get_balance(DB, a).val <= get_balance(pre, a).val

\* C14 as amended: rewind_to_height leaves every note's spent-state
\* unchanged and a note spent before it stays excluded from get_balance,
\* get_verified_balance and get_nullifiers; for every account whose counted
\* notes have no negative value and whose get_balance succeeded before the
\* rewind, get_balance succeeds after it and is not greater.
C14_RewindKeepsSpent ==
  Rewound =>
    /\ SpentStateKept
    /\ SpentStayExcluded
    /\ \A a \in AccountIds :
         ((\A n \in BalanceRows(pre, a) : pre.received_notes[n].value >= 0)
            /\ get_balance(pre, a).tag = "Ok") =>
           /\ get_balance(DB, a).tag = "Ok"
           /\ get_balance(DB, a).val <= get_balance(pre, a).val

C14_Witness ==
  /\ Rewound /\ last.ret = "Ok"
  /\ \E n \in SpentBefore :
       /\ received_notes[n].spent \in MinedAbove(pre, last.h)
       /\ transactions[received_notes[n].spent].block = NULL
       /\ received_notes[n].value > 0
  /\ \A n \in BalanceRows(pre, 1) : pre.received_notes[n].value >= 0
  /\ get_nullifiers(DB).tag = "Ok"
  /\ get_balance(pre, 1).tag = "Ok"
  /\ get_balance(DB, 1).val < get_balance(pre, 1).val

\* A rewind that un-mines the transaction of a note of negative value.
C14_NegativeUnmined ==
  /\ Rewound /\ last.ret = "Ok"
  /\ get_balance(pre, 1).tag = "Ok" /\ get_balance(DB, 1).tag = "Ok"
  /\ get_balance(DB, 1).val > get_balance(pre, 1).val

====
